---- MODULE Spec2Model ----
(***************************************************************************)
(* Enhanced Legacy Notification Guard v4 (src/unnamed/part_000) and its    *)
(* companion scripts, as a state machine over a small model of the DOM.    *)
(*                                                                         *)
(* The document is a tree of nodes.  A node is named by a natural number,  *)
(* the Document node is 0, and dom maps every node that is in the document *)
(* to its record.  Nodes that leave the document are dropped from dom.     *)
(***************************************************************************)
EXTENDS Naturals, Integers, Sequences, FiniteSets, TLC

VARIABLES
    dom,          \* the live document: node -> its record (see Node)
    readyState,   \* document.readyState
    phase,        \* "fresh": guard script not run yet; "active": init() has run
    stubEnsured,  \* part_000:22
    observer,     \* part_000:23  "null" or "created"
    observed,     \* the node observer.observe() was given, NoNode if none, Gone if it left the document
    dclListener,  \* the DOMContentLoaded listener of init() is registered
    pending,      \* mutation records queued for the observer's next callback
    timers,       \* per matching click, the setTimeout delays still to fire
    win,          \* the five guarded globals of window
    budget,       \* host-page (external) operations still allowed
    last,         \* what the last step did (history, for stating the claims)
    location,     \* window.location of the tab: [path, search]
    meeting,      \* the meeting page and the state of its script
    nav,          \* the last call of handleJoinSession (history)
    sources       \* where else the caregiver page holds a meeting URL: [attr, input, data]

pageVars  == <<location, meeting, nav, sources>>
vars      == <<dom, readyState, phase, stubEnsured, observer, observed, dclListener,
               pending, timers, win, budget, last, location, meeting, nav, sources>>

----------------------------------------------------------------------------
(* Bounds of the model *)

\* external (host page) operations in one behaviour
MaxEnvOps == 2
\* mutation records the host page queues before the observer callback runs
MaxRecs == 1
\* matching clicks whose delayed checks are still pending
MaxClicks == 1

----------------------------------------------------------------------------
(* Program constants *)

TAG == "[LegacyNotifGuard-v4]"
SEL == "#home-header2 .container > div"
HEADER_ID == "home-header2"

legacyFunctions ==
    {"updateTabletBadge", "initNotificationBadge", "checkLoggedInUser",
     "updateNotificationCount", "refreshNotifications"}

----------------------------------------------------------------------------
(* The DOM *)

Doc    == 0
NoNode == -1
Gone   == -2

Range(s) == {s[i] : i \in 1..Len(s)}

\* the member of a singleton set
TheOne(S) == CHOOSE x \in S : TRUE

\* tag: the element's tag, "#text" for a text node; id, cls, role, href, mark,
\* style: the attributes the scripts read or write ("" when absent); text: a text
\* node's data; parent: parentNode (NoNode when there is none); kids: the child
\* nodes in order
Node(tag, id, cls, text, kids) ==
    [tag |-> tag, id |-> id, cls |-> cls, role |-> "", href |-> "", mark |-> "",
     style |-> "", text |-> text, parent |-> NoNode, kids |-> kids]

IsElem(d, n) == d[n].tag \notin {"#document", "#text"}

\* n.firstChild / n.lastChild
FirstChild(d, n) == IF d[n].kids = <<>> THEN NoNode ELSE Head(d[n].kids)
LastChild(d, n)  == IF d[n].kids = <<>> THEN NoNode ELSE d[n].kids[Len(d[n].kids)]

\* n.parentNode, NoNode for the Document and for a node that is not attached
ParentOf(d, n) == d[n].parent

\* the descendants of the nodes ks and the nodes themselves, in document order
RECURSIVE PreOrder(_, _)
PreOrder(d, ks) ==
    IF ks = <<>> THEN <<>>
    ELSE <<Head(ks)>> \o PreOrder(d, d[Head(ks)].kids) \o PreOrder(d, Tail(ks))

\* the descendants of n in document order, n excluded
Descendants(d, n) == PreOrder(d, d[n].kids)

\* the nodes of the document, once the detached ones are forgotten
InDocument(d) == DOMAIN d

Attached(d) == {Doc} \cup Range(Descendants(d, Doc))

RECURSIVE AncestorsOf(_, _)
AncestorsOf(d, n) ==
    LET p == ParentOf(d, n)
    IN  IF p = NoNode THEN {} ELSE {p} \cup AncestorsOf(d, p)

\* the first member of the sequence s that is in the set S, NoNode if none
FirstOf(s, S) ==
    LET isHit(n) == n \in S
        hits == SelectSeq(s, isHit)
    IN  IF hits = <<>> THEN NoNode ELSE Head(hits)

\* document.documentElement and document.body
DocumentElement(d) ==
    FirstOf(d[Doc].kids, {n \in DOMAIN d : IsElem(d, n)})

Body(d) ==
    LET h == DocumentElement(d)
    IN  IF h = NoNode THEN NoNode
        ELSE FirstOf(d[h].kids, {n \in DOMAIN d : d[n].tag = "body"})

\* document.getElementById(id)
GetElementById(d, id) ==
    FirstOf(Descendants(d, Doc), {n \in DOMAIN d : IsElem(d, n) /\ d[n].id = id})

\* n.querySelector('.' + cls): the first descendant of n with that class
QuerySelectorClass(d, n, cls) ==
    FirstOf(Descendants(d, n), {m \in DOMAIN d : IsElem(d, m) /\ d[m].cls = cls})

\* n.querySelector(tag): the first descendant of n with that tag
QuerySelectorTag(d, n, tag) ==
    FirstOf(Descendants(d, n), {m \in DOMAIN d : d[m].tag = tag})

\* n.querySelector('#' + id): the first descendant of n with that id
QuerySelectorId(d, n, id) ==
    FirstOf(Descendants(d, n), {m \in DOMAIN d : IsElem(d, m) /\ d[m].id = id})

\* whether m matches the selector SEL: a div whose parent has class container
\* and whose parent has an ancestor with id home-header2
MatchesSEL(d, m) ==
    /\ d[m].tag = "div"
    /\ LET p == ParentOf(d, m)
       IN  /\ p # NoNode
           /\ IsElem(d, p)
           /\ d[p].cls = "container"
           /\ \E a \in AncestorsOf(d, p) : IsElem(d, a) /\ d[a].id = HEADER_ID

\* the unpatched document.querySelector(SEL)
QuerySEL(d) ==
    FirstOf(Descendants(d, Doc), {m \in DOMAIN d : MatchesSEL(d, m)})

\* document.createElement(tag): a new node, not attached anywhere
FreshNode(d) == CHOOSE n \in 1..(Cardinality(DOMAIN d) + 1) : n \notin DOMAIN d

CreateElement(d, n, tag) == (n :> Node(tag, "", "", "", <<>>)) @@ d

\* p.appendChild(c)
AppendChild(d, p, c) == [d EXCEPT ![p].kids = Append(@, c), ![c].parent = p]

\* faulty variant: the new child replaces the children instead of preceding them
InsertFirstReplacing(d, p, c) == [d EXCEPT ![p].kids = <<c>>, ![c].parent = p]

\* p.insertBefore(c, p.firstChild)
InsertFirst(d, p, c) == [d EXCEPT ![p].kids = <<c>> \o @, ![c].parent = p]

\* the nodes that are not in the document are forgotten
Collect(d) == [n \in Attached(d) |-> d[n]]

\* n.remove()
SelectSeq2(s, x) == SelectSeq(s, LAMBDA y : y # x)

RemoveChild(d, n) ==
    LET p == ParentOf(d, n)
    IN  Collect([d EXCEPT ![p].kids = SelectSeq2(@, n), ![n].parent = NoNode])

----------------------------------------------------------------------------
(* The stub chain *)

Headers(d) == {n \in InDocument(d) : IsElem(d, n) /\ d[n].id = HEADER_ID}

HeaderExists(d) == GetElementById(d, HEADER_ID) # NoNode

\* the four-node chain StubRoot > StubContainer > StubLeaf > StubMarker, once
FullChain(d) ==
    \E h \in Headers(d) :
        /\ Headers(d) = {h}
        /\ Len(d[h].kids) = 1
        /\ LET c == d[h].kids[1]
           IN  /\ IsElem(d, c) /\ d[c].cls = "container"
               /\ Len(d[c].kids) = 1
               /\ LET l == d[c].kids[1]
                  IN  d[l].tag = "div" /\ d[l].kids # <<>>

\* document.querySelector(SEL) is non-null and so is its lastChild
SelResolves(d) == QuerySEL(d) # NoNode /\ LastChild(d, QuerySEL(d)) # NoNode

\* which node of the chain n is, "none" if the chain is not whole or n is not in it
ChainRole(d, n) ==
    IF ~FullChain(d) THEN "none"
    ELSE LET h == GetElementById(d, HEADER_ID)
             c == d[h].kids[1]
             l == d[c].kids[1]
         IN  IF n = h THEN "root"
             ELSE IF n = c THEN "container"
             ELSE IF n = l THEN "leaf"
             ELSE IF n \in Range(d[l].kids) THEN "marker"
             ELSE "none"

----------------------------------------------------------------------------
(* ensureStub, part_000:45-101 *)

\* faulty variant: once there is a body the stub root is looked up in it only
EnsureHeaderInBody(d) ==
    LET header == IF Body(d) = NoNode THEN GetElementById(d, HEADER_ID)
                  ELSE QuerySelectorId(d, Body(d), HEADER_ID)
    IN  IF header # NoNode THEN [d |-> d, n |-> header]
        ELSE LET h  == FreshNode(d)
                 d1 == [CreateElement(d, h, "div") EXCEPT
                           ![h].id = HEADER_ID, ![h].style = "hidden", ![h].mark = "v4"]
             IN  [d |-> IF Body(d) # NoNode THEN InsertFirst(d1, Body(d), h)
                        ELSE IF DocumentElement(d) # NoNode
                             THEN AppendChild(d1, DocumentElement(d), h)
                             ELSE d1,
                  n |-> h]

\* part_000:47-66: the header, created and attached when it is missing
EnsureHeader(d) ==
    LET header == GetElementById(d, HEADER_ID)
    IN  IF header # NoNode THEN [d |-> d, n |-> header]
        ELSE LET h  == FreshNode(d)
                 d1 == [CreateElement(d, h, "div") EXCEPT
                           ![h].id = HEADER_ID, ![h].style = "hidden", ![h].mark = "v4"]
             IN  [d |-> IF Body(d) # NoNode THEN InsertFirst(d1, Body(d), h)
                        ELSE IF DocumentElement(d) # NoNode
                             THEN AppendChild(d1, DocumentElement(d), h)
                             ELSE d1,
                  n |-> h]

\* faulty variant: the container is created without looking for an existing one
EnsureContainerAlways(d, header) ==
    LET c  == FreshNode(d)
        d1 == [CreateElement(d, c, "div") EXCEPT
                  ![c].cls = "container", ![c].style = "hidden"]
    IN  [d |-> AppendChild(d1, header, c), n |-> c]

\* part_000:69-75
EnsureContainer(d, header) ==
    LET container == QuerySelectorClass(d, header, "container")
    IN  IF container # NoNode THEN [d |-> d, n |-> container]
        ELSE LET c  == FreshNode(d)
                 d1 == [CreateElement(d, c, "div") EXCEPT
                           ![c].cls = "container", ![c].style = "hidden"]
             IN  [d |-> AppendChild(d1, header, c), n |-> c]

\* part_000:77-82
EnsureInnerDiv(d, container) ==
    LET innerDiv == QuerySelectorTag(d, container, "div")
    IN  IF innerDiv # NoNode THEN [d |-> d, n |-> innerDiv]
        ELSE LET i  == FreshNode(d)
                 d1 == [CreateElement(d, i, "div") EXCEPT ![i].style = "hidden"]
             IN  [d |-> AppendChild(d1, container, i), n |-> i]

\* faulty variant: the marker is appended without looking at lastChild
EnsureLastChildAlways(d, innerDiv) ==
    LET s  == FreshNode(d)
        d1 == [CreateElement(d, s, "span") EXCEPT
                  ![s].cls = "notification-badge-stub", ![s].style = "hidden",
                  ![s].mark = "stub"]
    IN  AppendChild(d1, innerDiv, s)

\* part_000:85-91
EnsureLastChild(d, innerDiv) ==
    IF LastChild(d, innerDiv) # NoNode THEN d
    ELSE LET s  == FreshNode(d)
             d1 == [CreateElement(d, s, "span") EXCEPT
                       ![s].cls = "notification-badge-stub", ![s].style = "hidden",
                       ![s].mark = "stub"]
         IN  AppendChild(d1, innerDiv, s)

\* the whole call on document d with the flag se: the document and the flag it
\* leaves, the value it returns, and whether an exception left it.  The try
\* block has no statement that can fail on a Document, so the catch branch
\* (part_000:97-100) is taken only if one of the three nodes were null.
\* faulty variant: a missing body is reported as a failure
EnsureResultNeedsBody(d, se, s3) ==
    IF s3.n = NoNode \/ Body(d) = NoNode
    THEN [dom |-> d, stubEnsured |-> se, ret |-> "false", threw |-> FALSE]
    ELSE [dom |-> Collect(EnsureLastChild(s3.d, s3.n)), stubEnsured |-> TRUE,
          ret |-> "true", threw |-> FALSE]

\* (Each intermediate result is bound once, as the member of a singleton set.)
EnsureResult(d, se, s3) ==
    IF s3.n = NoNode
    THEN [dom |-> d, stubEnsured |-> se, ret |-> "false", threw |-> FALSE]
    ELSE [dom |-> Collect(EnsureLastChild(s3.d, s3.n)), stubEnsured |-> TRUE,
          ret |-> "true", threw |-> FALSE]

ensureStub(d, se) ==
    TheOne({EnsureResult(d, se, s3) :
              s3 \in {EnsureInnerDiv(s2.d, s2.n) :
                        s2 \in {EnsureContainer(s1.d, s1.n) :
                                  s1 \in {EnsureHeader(d)}}}})

----------------------------------------------------------------------------
(* The pages the guard script is loaded into *)

Elem(tag, kids) == Node(tag, "", "", "", kids)
Text(data)      == Node("#text", "", "", data, <<>>)

\* the tree given by the kids fields, with every parent field set
Tree(d) ==
    [n \in DOMAIN d |->
        IF \E p \in DOMAIN d : n \in Range(d[p].kids)
        THEN [d[n] EXCEPT !.parent = CHOOSE p \in DOMAIN d : n \in Range(d[p].kids)]
        ELSE d[n]]

\* <html><head> is being parsed: the guard is the first script of the head
\* (CAREGIVER_SESSION_FIX.md:72-87), no body yet
PageHead ==
    Tree(
    (0 :> Elem("#document", <<1>>)) @@ (1 :> Elem("html", <<2>>)) @@
    (2 :> Elem("head", <<>>)))

\* a body with a "Join session" button and a div with the same text
PageBody ==
    Tree(
    (0 :> Elem("#document", <<1>>)) @@ (1 :> Elem("html", <<2, 3>>)) @@
    (2 :> Elem("head", <<>>)) @@ (3 :> Elem("body", <<4, 6>>)) @@
    (4 :> Elem("button", <<5>>)) @@ (5 :> Text("Join session")) @@
    (6 :> Elem("div", <<7>>)) @@ (7 :> Text("Join session")))

\* a page with a #home-header2 of its own, shaped differently from the stub:
\* <div id=home-header2><div class=container><span><div></div></span><div></div></div></div>
PageOwnHeader ==
    Tree(
    (0 :> Elem("#document", <<1>>)) @@ (1 :> Elem("html", <<2>>)) @@
    (2 :> Elem("body", <<3>>)) @@
    (3 :> [Elem("div", <<4>>) EXCEPT !.id = HEADER_ID]) @@
    (4 :> [Elem("div", <<5, 7>>) EXCEPT !.cls = "container"]) @@
    (5 :> Elem("span", <<6>>)) @@ (6 :> Elem("div", <<>>)) @@
    (7 :> Elem("div", <<>>)))

\* the href property of an SVG <a> element: an SVGAnimatedString object, not a
\* string
SvgHref == "[object SVGAnimatedString]"

\* a body with a "Join session" button whose text is in a span, an SVG link,
\* and a "Join Session" button:
\* <button><span>Join session</span></button><svg:a href/><button>Join Session</button>
PageJoin ==
    Tree(
    (0 :> Elem("#document", <<1>>)) @@ (1 :> Elem("html", <<2, 3>>)) @@
    (2 :> Elem("head", <<>>)) @@ (3 :> Elem("body", <<4, 7, 8>>)) @@
    (4 :> Elem("button", <<5>>)) @@ (5 :> Elem("span", <<6>>)) @@
    (6 :> Text("Join session")) @@
    (7 :> [Elem("a", <<>>) EXCEPT !.href = SvgHref]) @@
    (8 :> Elem("button", <<9>>)) @@ (9 :> Text("Join Session")))

\* a page that carries the four-node chain in its own markup, inside a
\* wrapper, next to a paragraph:
\* <div class=wrap><div id=home-header2><div class=container><div><span/></div></div></div></div><p>text</p>
PageNested ==
    Tree(
    (0 :> Elem("#document", <<1>>)) @@ (1 :> Elem("html", <<2, 3>>)) @@
    (2 :> Elem("head", <<>>)) @@ (3 :> Elem("body", <<4, 9>>)) @@
    (4 :> [Elem("div", <<5>>) EXCEPT !.cls = "wrap"]) @@
    (5 :> [Elem("div", <<6>>) EXCEPT !.id = HEADER_ID]) @@
    (6 :> [Elem("div", <<7>>) EXCEPT !.cls = "container"]) @@
    (7 :> Elem("div", <<8>>)) @@ (8 :> Elem("span", <<>>)) @@
    (9 :> Elem("p", <<10>>)) @@ (10 :> Text("text")))

\* a body with a "Join session" button and a link to the Zoom meeting
PageZoom ==
    Tree(
    (0 :> Elem("#document", <<1>>)) @@ (1 :> Elem("html", <<2, 3>>)) @@
    (2 :> Elem("head", <<>>)) @@ (3 :> Elem("body", <<4, 6>>)) @@
    (4 :> Elem("button", <<5>>)) @@ (5 :> Text("Join session")) @@
    (6 :> [Elem("a", <<7>>) EXCEPT !.href = "https://zoom.us/j/1"]) @@
    (7 :> Text("Zoom")))

StubPages == {PageHead, PageBody}
AllPages  == {PageHead, PageBody, PageOwnHeader, PageJoin}

\* the parser is still in the head only while the document is loading
ReadyStates(pg) ==
    IF pg = PageHead THEN {"loading"}
    ELSE IF pg = PageJoin THEN {"loading", "complete"}
    ELSE {"loading", "interactive", "complete"}

----------------------------------------------------------------------------
(* What a step reports *)

Obs0 ==
    [op |-> "none", ret |-> "none", threw |-> FALSE, calls |-> 0, warned |-> FALSE,
     preBody |-> FALSE, preHeader |-> FALSE, preFull |-> FALSE, removed |-> "none", after |-> "none",
     tgt |-> NoNode, fn |-> "none", handler |-> FALSE, alerted |-> FALSE,
     sel |-> "none", res0 |-> NoNode, res |-> NoNode,
     self |-> "none", args |-> <<>>, val |-> <<>>, applied |-> 0, delay |-> 0,
     seen |-> FALSE, batch |-> <<>>, url |-> [present |-> FALSE, value |-> <<>>],
     status |-> [stubEnsured |-> FALSE, headerExists |-> FALSE, observerActive |-> FALSE]]

\* a mutation record of type childList for the removal of node n from d
RemovalRecord(d, n) ==
    [type |-> "childList",
     removedNodes |-> <<[id |-> d[n].id,
                         nodeType |-> IF IsElem(d, n) THEN 1 ELSE 3,
                         hasHeader |-> QuerySelectorId(d, n, HEADER_ID) # NoNode]>>]

AddedRecord == [type |-> "childList", removedNodes |-> <<>>]

\* whether node n of d lies in the subtree the observer watches
Watched(d, obs, n) == obs \in DOMAIN d /\ (n = obs \/ obs \in AncestorsOf(d, n))

\* the records queued by the insertions that turned d0 into d1; records of
\* insertions alone carry no removed node and are kept as one
Inserted(d0, d1, obs, q) ==
    IF \E n \in DOMAIN d1 \ DOMAIN d0 : Watched(d1, obs, ParentOf(d1, n))
    THEN IF q # <<>> /\ q[Len(q)].removedNodes = <<>> THEN q ELSE Append(q, AddedRecord)
    ELSE q

----------------------------------------------------------------------------
(* Strings and URL query strings                                           *)
(* A string is a sequence of characters; a parameter name is one token.    *)

\* the characters the meeting URL and the session identifier are made of
Chars == {"a", " ", "&", "=", "%", "+", "2", "5"}

RECURSIVE SeqsUpTo(_, _)
SeqsUpTo(S, n) ==
    IF n = 0 THEN {<<>>}
    ELSE SeqsUpTo(S, n - 1) \cup
         {Append(q, c) : q \in {r \in SeqsUpTo(S, n - 1) : Len(r) = n - 1}, c \in S}

\* a JavaScript value that is a string, or null / undefined
Null   == [present |-> FALSE, value |-> <<>>]
Str(q) == [present |-> TRUE, value |-> q]

\* String.prototype.trim
RECURSIVE TrimLeft(_)
TrimLeft(q) == IF q # <<>> /\ Head(q) = " " THEN TrimLeft(Tail(q)) ELSE q

RECURSIVE TrimRight(_)
TrimRight(q) ==
    IF q # <<>> /\ q[Len(q)] = " " THEN TrimRight(SubSeq(q, 1, Len(q) - 1)) ELSE q

Trim(q) == TrimRight(TrimLeft(q))

\* faulty variant: the character is written into the query as it is
EncodeCharRaw(c) == <<c>>

\* the application/x-www-form-urlencoded serializer of URLSearchParams, for
\* one character: a space becomes "+", a reserved character a percent escape
EncodeChar(c) ==
    CASE c = " " -> <<"+">>
      [] c = "&" -> <<"%", "2", "6">>
      [] c = "=" -> <<"%", "3", "D">>
      [] c = "%" -> <<"%", "2", "5">>
      [] c = "+" -> <<"%", "2", "B">>
      [] OTHER   -> <<c>>

RECURSIVE Encode(_)
Encode(q) == IF q = <<>> THEN <<>> ELSE EncodeChar(Head(q)) \o Encode(Tail(q))

\* the percent escapes the serializer writes, and the characters they stand for
IsEscape(h, l) ==
    <<h, l>> \in {<<"2", "6">>, <<"3", "D">>, <<"2", "5">>, <<"2", "B">>}

Unescape(h, l) ==
    CASE <<h, l>> = <<"2", "6">> -> "&"
      [] <<h, l>> = <<"3", "D">> -> "="
      [] <<h, l>> = <<"2", "5">> -> "%"
      [] OTHER                   -> "+"

\* the urlencoded parser of URLSearchParams on one name or value: "+" is a
\* space, a percent escape is decoded, anything else stands for itself
RECURSIVE Decode(_)
Decode(q) ==
    IF q = <<>> THEN <<>>
    ELSE IF Head(q) = "+" THEN <<" ">> \o Decode(Tail(q))
    ELSE IF Head(q) = "%" /\ Len(q) >= 3 /\ IsEscape(q[2], q[3])
         THEN <<Unescape(q[2], q[3])>> \o Decode(SubSeq(q, 4, Len(q)))
    ELSE <<Head(q)>> \o Decode(Tail(q))

\* the position of the first sep in q, 0 if there is none
FirstIndex(q, sep) ==
    IF \E i \in 1..Len(q) : q[i] = sep
    THEN CHOOSE i \in 1..Len(q) : q[i] = sep /\ \A k \in 1..(i - 1) : q[k] # sep
    ELSE 0

RECURSIVE Split(_, _)
Split(q, sep) ==
    IF FirstIndex(q, sep) = 0 THEN <<q>>
    ELSE <<SubSeq(q, 1, FirstIndex(q, sep) - 1)>> \o
         Split(SubSeq(q, FirstIndex(q, sep) + 1, Len(q)), sep)

\* one name=value piece of a query string
ParsePair(piece) ==
    IF FirstIndex(piece, "=") = 0
    THEN [name |-> Decode(piece), value |-> <<>>]
    ELSE [name  |-> Decode(SubSeq(piece, 1, FirstIndex(piece, "=") - 1)),
          value |-> Decode(SubSeq(piece, FirstIndex(piece, "=") + 1, Len(piece)))]

\* new URLSearchParams(search): the list of name/value pairs of a search
\* string, with its leading "?" dropped and empty pieces skipped
URLSearchParams(search) ==
    LET body   == IF search # <<>> /\ Head(search) = "?" THEN Tail(search) ELSE search
        pieces == SelectSeq(Split(body, "&"), LAMBDA p : p # <<>>)
    IN  [i \in 1..Len(pieces) |-> ParsePair(pieces[i])]

\* params.get(name): the value of the first pair with that name, or null
Get(params, name) ==
    IF \E i \in 1..Len(params) : params[i].name = <<name>>
    THEN Str(params[CHOOSE i \in 1..Len(params) :
                       /\ params[i].name = <<name>>
                       /\ \A k \in 1..(i - 1) : params[k].name # <<name>>].value)
    ELSE Null

\* url.searchParams.set(name, value) on a list without that name, and the
\* search string the URL then has
SetParam(params, name, value) == Append(params, [name |-> <<name>>, value |-> value])

RECURSIVE Serialize(_)
Serialize(params) ==
    IF params = <<>> THEN <<>>
    ELSE Encode(Head(params).name) \o <<"=">> \o Encode(Head(params).value) \o
         (IF Len(params) > 1 THEN <<"&">> \o Serialize(Tail(params)) ELSE <<>>)

Search(params) == IF params = <<>> THEN <<>> ELSE <<"?">> \o Serialize(params)

----------------------------------------------------------------------------
(* The join-session handler (CAREGIVER_SESSION_FIX.md:339-476) and the     *)
(* meeting page script (meeting-page-code.js)                              *)

\* longest meeting URL, longest session identifier, and most runs of
\* initializeZoomIframe on one meeting page
MaxUrlLen == 2
MaxSidLen == 1
MaxInits == 2

\* the characters of a session identifier
SidChars == {"a", "&"}

\* a value is truthy in JavaScript: neither null/undefined nor ""
Truthy(v) == v.present /\ v.value # <<>>

CaregiverPage == [path |-> "/caregiver", search |-> <<>>]

\* CAREGIVER_SESSION_FIX.md:349-373: what handleJoinSession does to
\* window.location loc
handleJoinSession(zoomMeetingUrl, sessionIdParam, loc) ==
    IF ~Truthy(zoomMeetingUrl) \/ Trim(zoomMeetingUrl.value) = <<>>
    THEN [location |-> loc, alerted |-> TRUE, redirected |-> FALSE]
    ELSE [location |->
             [path   |-> "/meeting",
              search |-> Search(
                  IF Truthy(sessionIdParam)
                  THEN SetParam(SetParam(<<>>, "meetingUrl", zoomMeetingUrl.value),
                                "sessionId", sessionIdParam.value)
                  ELSE SetParam(<<>>, "meetingUrl", zoomMeetingUrl.value))],
          alerted |-> FALSE, redirected |-> TRUE]

NoNav == [called |-> FALSE, u |-> Null, s |-> Null, alerted |-> FALSE, redirected |-> FALSE]

\* the meeting page before it is opened; kids are the children of
\* #zoom-meeting-container, content what the container shows
MeetingClosed ==
    [stage |-> "closed", hasContainer |-> FALSE, content |-> "none", src |-> Null,
     meetingUrl |-> Null, sessionId |-> Null, inits |-> 0, errors |-> 0,
     spinnerHidden |-> FALSE, retries |-> 0, kids |-> <<>>]

\* meeting-page-code.js:76-104
showError(m) ==
    [m EXCEPT !.content = IF m.hasContainer THEN "error" ELSE @,
              !.kids = IF m.hasContainer THEN <<"error">> ELSE @,
              !.spinnerHidden = TRUE]

\* faulty variant: an iframe is created whatever the meeting URL is
initializeZoomIframeAlways(m) ==
    IF ~m.hasContainer
    THEN showError([m EXCEPT !.inits = @ + 1, !.errors = @ + 1])
    ELSE [m EXCEPT !.inits = @ + 1, !.content = "iframe", !.src = m.meetingUrl,
                   !.kids = <<"iframe">>, !.spinnerHidden = TRUE]

\* faulty variant: the iframe is appended to what the container holds
initializeZoomIframeAppending(m) ==
    IF ~m.hasContainer
    THEN showError([m EXCEPT !.inits = @ + 1, !.errors = @ + 1])
    ELSE IF ~Truthy(m.meetingUrl)
    THEN showError([m EXCEPT !.inits = @ + 1, !.errors = @ + 1])
    ELSE [m EXCEPT !.inits = @ + 1, !.content = "iframe", !.src = m.meetingUrl,
                   !.kids = Append(@, "iframe"), !.spinnerHidden = TRUE]

\* meeting-page-code.js:31-71
initializeZoomIframe(m) ==
    IF ~m.hasContainer
    THEN showError([m EXCEPT !.inits = @ + 1, !.errors = @ + 1])
    ELSE IF ~Truthy(m.meetingUrl)
    THEN showError([m EXCEPT !.inits = @ + 1, !.errors = @ + 1])
    ELSE [m EXCEPT !.inits = @ + 1, !.content = "iframe", !.src = m.meetingUrl,
                   !.kids = <<"iframe">>, !.spinnerHidden = TRUE]

guardSide == <<dom, readyState, phase, stubEnsured, observer, observed, dclListener,
               pending, timers, win, budget, last>>

\* window.JoinSessionHandler.handleJoinSession(u, s) on the caregiver page
JoinSession(u, s) ==
    /\ location.path = "/caregiver"
    /\ ~nav.called
    /\ \E r \in {handleJoinSession(u, s, location)} :
           /\ location' = r.location
           /\ nav' = [called |-> TRUE, u |-> u, s |-> s, alerted |-> r.alerted,
                      redirected |-> r.redirected]
    /\ UNCHANGED <<meeting, sources, guardSide>>

\* the meeting page is opened by its address, not by the handler
OpenMeeting(search) ==
    /\ location.path = "/caregiver"
    /\ ~nav.called
    /\ location' = [path |-> "/meeting", search |-> search]
    /\ UNCHANGED <<meeting, nav, sources, guardSide>>

\* meeting-page-code.js:13-139: the script of the meeting page runs; rs is
\* document.readyState then, hc whether #zoom-meeting-container is on the page
MeetingScript(rs, hc) ==
    /\ location.path = "/meeting"
    /\ meeting.stage = "closed"
    /\ \E m \in {[MeetingClosed EXCEPT
                    !.hasContainer = hc,
                    !.content = IF hc THEN "spinner" ELSE "none",
                    !.kids = IF hc THEN <<"spinner">> ELSE <<>>,
                    !.meetingUrl = Get(URLSearchParams(location.search), "meetingUrl"),
                    !.sessionId = Get(URLSearchParams(location.search), "sessionId")]} :
           meeting' = IF rs = "loading"
                      THEN [m EXCEPT !.stage = "waiting"]
                      ELSE [initializeZoomIframe(m) EXCEPT !.stage = "ready"]
    /\ UNCHANGED <<location, nav, sources, guardSide>>

\* meeting-page-code.js:122: DOMContentLoaded on the meeting page
MeetingDOMContentLoaded ==
    /\ meeting.stage = "waiting"
    /\ meeting' = [initializeZoomIframe(meeting) EXCEPT !.stage = "ready"]
    /\ UNCHANGED <<location, nav, sources, guardSide>>

\* meeting-page-code.js:136: window.MeetingPageDebug.reinitialize()
Reinitialize ==
    /\ meeting.stage \in {"waiting", "ready"}
    /\ meeting.inits < MaxInits
    /\ meeting' = initializeZoomIframe(meeting)
    /\ UNCHANGED <<location, nav, sources, guardSide>>

----------------------------------------------------------------------------
(* The guard: part_000 *)

\* faulty variant: no observer is ever created
setupMutationObserverNever(d, obsr, obsd) == [observer |-> obsr, observed |-> obsd]

\* part_000:152-185, on document d: the observer and the node it watches
setupMutationObserver(d, obsr, obsd) ==
    IF obsr # "null" THEN [observer |-> obsr, observed |-> obsd]
    ELSE [observer |-> "created", observed |-> Body(d)]

\* the receivers and argument lists the page calls the guarded globals with
Receivers == {"window", "badge"}
ArgLists  == {<<>>, <<"count">>}

\* what an original that returns normally returns: it tells its receiver and
\* its arguments
OriginalReturn(self, args) == <<self, args>>

\* faulty variant: the wrapper lets the original's exception through
safeWrapRethrowing(fn, d, se, self, args) ==
    TheOne({IF fn.throws
            THEN [dom |-> e.dom, stubEnsured |-> e.stubEnsured, ret |-> "none",
                  val |-> <<>>, applied |-> 1, atApply |-> e.dom,
                  threw |-> TRUE, warned |-> TRUE, calls |-> 1]
            ELSE [dom |-> e.dom, stubEnsured |-> e.stubEnsured, ret |-> "value",
                  val |-> OriginalReturn(self, args), applied |-> 1,
                  atApply |-> e.dom,
                  threw |-> FALSE, warned |-> FALSE, calls |-> 1] :
            e \in {ensureStub(d, se)}})

\* faulty variant: the original is called as a plain function, without the
\* wrapper's receiver
safeWrapNoReceiver(fn, d, se, self, args) ==
    TheOne({IF fn.throws
            THEN [dom |-> e.dom, stubEnsured |-> e.stubEnsured, ret |-> "null",
                  val |-> <<>>, applied |-> 1, atApply |-> e.dom,
                  threw |-> FALSE, warned |-> TRUE, calls |-> 1]
            ELSE [dom |-> e.dom, stubEnsured |-> e.stubEnsured, ret |-> "value",
                  val |-> OriginalReturn("undefined", args), applied |-> 1,
                  atApply |-> e.dom,
                  threw |-> FALSE, warned |-> FALSE, calls |-> 1] :
            e \in {ensureStub(d, se)}})

\* part_000:106-116: the function safeWrap(fn, name) returns, called on
\* document d with receiver self and arguments args; fn is the original's
\* behaviour.  ensureStub runs, then fn.apply(this, args) once, on the
\* document atApply; its value is returned, its exception is logged and null
\* returned
safeWrap(fn, d, se, self, args) ==
    TheOne({IF fn.throws
            THEN [dom |-> e.dom, stubEnsured |-> e.stubEnsured, ret |-> "null",
                  val |-> <<>>, applied |-> 1, atApply |-> e.dom,
                  threw |-> FALSE, warned |-> TRUE, calls |-> 1]
            ELSE [dom |-> e.dom, stubEnsured |-> e.stubEnsured, ret |-> "value",
                  val |-> OriginalReturn(self, args), applied |-> 1,
                  atApply |-> e.dom,
                  threw |-> FALSE, warned |-> FALSE, calls |-> 1] :
            e \in {ensureStub(d, se)}})

\* a call of a global that is not wrapped
plainCall(fn, d, se, self, args) ==
    [dom |-> d, stubEnsured |-> se, ret |-> IF fn.throws THEN "none" ELSE "value",
     val |-> IF fn.throws THEN <<>> ELSE OriginalReturn(self, args), applied |-> 1,
     atApply |-> d,
     threw |-> fn.throws, warned |-> FALSE, calls |-> 0]

\* part_000:130-136: the globals that are functions now are replaced by wrappers
wrapExisting(w) ==
    [f \in legacyFunctions |->
        IF w[f].defined THEN [w[f] EXCEPT !.wrapped = TRUE] ELSE w[f]]

\* part_000:246-282
GuardInit ==
    /\ phase = "fresh"
    /\ pending = <<>>
    /\ \E e1 \in {ensureStub(dom, stubEnsured)} :
       \E e2 \in {ensureStub(e1.dom, e1.stubEnsured)} :
       \E ob \in {setupMutationObserver(e2.dom, observer, observed)} :
           IF readyState = "loading"
           THEN /\ dom' = e1.dom
                /\ stubEnsured' = e1.stubEnsured
                /\ dclListener' = TRUE
                /\ UNCHANGED <<observer, observed>>
                /\ last' = [Obs0 EXCEPT !.op = "init", !.calls = 1, !.ret = e1.ret,
                                        !.preBody = Body(dom) # NoNode]
           ELSE /\ dom' = e2.dom
                /\ stubEnsured' = e2.stubEnsured
                /\ observer' = ob.observer
                /\ observed' = ob.observed
                /\ UNCHANGED dclListener
                /\ last' = [Obs0 EXCEPT !.op = "init", !.calls = 2, !.ret = e2.ret,
                                        !.preBody = Body(dom) # NoNode]
    /\ win' = wrapExisting(win)
    /\ phase' = "active"
    /\ UNCHANGED <<readyState, pending, timers, budget>>
    /\ UNCHANGED pageVars

\* the document's DOMContentLoaded event; part_000:257-261 is its listener
DOMContentLoaded ==
    /\ readyState = "loading"
    /\ pending = <<>>
    /\ readyState' = "interactive"
    /\ IF dclListener
       THEN \E e \in {ensureStub(dom, stubEnsured)} :
            \E ob \in {setupMutationObserver(e.dom, observer, observed)} :
                /\ dom' = e.dom
                /\ stubEnsured' = e.stubEnsured
                /\ observer' = ob.observer
                /\ observed' = ob.observed
                /\ pending' = Inserted(dom, e.dom, observed, pending)
                /\ last' = [Obs0 EXCEPT !.op = "dcl", !.calls = 1, !.ret = e.ret,
                                        !.preBody = Body(dom) # NoNode]
       ELSE /\ UNCHANGED <<dom, stubEnsured, observer, observed, pending>>
            /\ last' = [Obs0 EXCEPT !.op = "dcl"]
    /\ UNCHANGED <<phase, dclListener, timers, win, budget>>
    /\ UNCHANGED pageVars

\* the window's load event; part_000:268-271 is its listener
Load ==
    /\ readyState = "interactive"
    /\ pending = <<>>
    /\ readyState' = "complete"
    /\ IF phase = "active"
       THEN \E e \in {ensureStub(dom, stubEnsured)} :
                /\ dom' = e.dom
                /\ stubEnsured' = e.stubEnsured
                /\ pending' = Inserted(dom, e.dom, observed, pending)
                /\ last' = [Obs0 EXCEPT !.op = "load", !.calls = 1, !.ret = e.ret,
                                        !.preBody = Body(dom) # NoNode]
       ELSE /\ UNCHANGED <<dom, stubEnsured, pending>>
            /\ last' = [Obs0 EXCEPT !.op = "load"]
    /\ UNCHANGED <<phase, observer, observed, dclListener, timers, win, budget>>
    /\ UNCHANGED pageVars

\* faulty variant: the periodic check trusts the flag and does not look at the document
TickNeededFlagOnly(d, se) == ~se

\* faulty variant: the periodic check needs both the flag down and the root gone
TickNeededBoth(d, se) == ~se /\ GetElementById(d, HEADER_ID) = NoNode

\* part_000:275: the condition of the periodic check
TickNeeded(d, se) == ~se \/ GetElementById(d, HEADER_ID) = NoNode

\* part_000:274-279: one run of the setInterval callback
Tick ==
    /\ phase = "active"
    /\ pending = <<>>
    /\ IF TickNeeded(dom, stubEnsured)
       THEN \E e \in {ensureStub(dom, stubEnsured)} :
                /\ dom' = e.dom
                /\ stubEnsured' = e.stubEnsured
                /\ pending' = Inserted(dom, e.dom, observed, pending)
                /\ last' = [Obs0 EXCEPT !.op = "tick", !.calls = 1, !.ret = e.ret,
                                        !.after = last.removed,
                                        !.preBody = Body(dom) # NoNode,
                                        !.preHeader = HeaderExists(dom)]
       ELSE /\ UNCHANGED <<dom, stubEnsured, pending>>
            /\ last' = [Obs0 EXCEPT !.op = "tick", !.after = last.removed]
    /\ UNCHANGED <<readyState, phase, observer, observed, dclListener, timers, win, budget>>
    /\ UNCHANGED pageVars

\* faulty variant: only the removal of the stub root itself asks for a check
needsCheckIdOnly(mutations) ==
    \E i \in 1..Len(mutations) :
        /\ mutations[i].type = "childList"
        /\ \E j \in 1..Len(mutations[i].removedNodes) :
              mutations[i].removedNodes[j].id = HEADER_ID

\* faulty variant: any child-list record asks for a check
needsCheckAnyRecord(mutations) ==
    \E i \in 1..Len(mutations) : mutations[i].type = "childList"

\* part_000:158-169: whether the batch of records asks for a check
needsCheck(mutations) ==
    \E i \in 1..Len(mutations) :
        /\ mutations[i].type = "childList"
        /\ \E j \in 1..Len(mutations[i].removedNodes) :
              LET node == mutations[i].removedNodes[j]
              IN  node.id = HEADER_ID \/ (node.nodeType = 1 /\ node.hasHeader)

\* part_000:155-175: the observer's callback on the queued records
ObserverCallback ==
    /\ observer = "created"
    /\ pending # <<>>
    /\ IF needsCheck(pending)
       THEN \E e \in {ensureStub(dom, FALSE)} :
                /\ dom' = e.dom
                /\ stubEnsured' = e.stubEnsured
                /\ pending' = Inserted(dom, e.dom, observed, <<>>)
                /\ last' = [Obs0 EXCEPT !.op = "observer", !.calls = 1, !.ret = e.ret,
                                        !.after = last.removed, !.batch = pending,
                                        !.preBody = Body(dom) # NoNode]
       ELSE /\ UNCHANGED <<dom, stubEnsured>>
            /\ pending' = <<>>
            /\ last' = [Obs0 EXCEPT !.op = "observer", !.after = last.removed,
                                    !.batch = pending]
    /\ UNCHANGED <<readyState, phase, observer, observed, dclListener, timers, win, budget>>
    /\ UNCHANGED pageVars

\* n.textContent, as the sequence of the text nodes' data under n
TextContent(d, n) ==
    LET ds == Descendants(d, n)
        tx == SelectSeq(ds, LAMBDA m : d[m].tag = "#text")
    IN  [i \in 1..Len(tx) |-> d[tx[i]].text]

\* s.includes(phrase), s a sequence of phrases
Includes(s, phrase) == phrase \in Range(s)

\* target.matches('button, a, [role="button"]')
MatchesButton(d, t) == d[t].tag \in {"button", "a"} \/ d[t].role = "button"

\* href.includes('zoom')
HrefHasZoom(h) == h \in {"https://zoom.us/j/1"}

\* faulty variant: only the short delayed check is scheduled
ClickDelaysShortOnly == <<100>>

\* faulty variant: the phrases are compared in another letter case
isJoinButtonOtherCase(d, t) ==
    /\ MatchesButton(d, t)
    /\ \/ Includes(TextContent(d, t), "Join Session")
       \/ Includes(TextContent(d, t), "Start Meeting")
       \/ (d[t].href # "" /\ HrefHasZoom(d[t].href))

\* part_000:219-223
isJoinButton(d, t) ==
    /\ MatchesButton(d, t)
    /\ \/ Includes(TextContent(d, t), "Join session")
       \/ Includes(TextContent(d, t), "Start meeting")
       \/ (d[t].href # "" /\ HrefHasZoom(d[t].href))

\* part_000:230-235: the two delayed checks a matching click schedules
ClickDelays == <<100, 500>>

\* part_000:220-223 on a target that has no matches method (a node that is
\* not an element), or whose href has no includes method: a TypeError
ClickThrows(d, t) ==
    \/ ~IsElem(d, t)
    \/ /\ MatchesButton(d, t)
       /\ ~Includes(TextContent(d, t), "Join session")
       /\ ~Includes(TextContent(d, t), "Start meeting")
       /\ d[t].href = SvgHref

\* String.prototype.toLowerCase on a phrase
ToLowerCase(phrase) ==
    CASE phrase \in {"Join session", "Join Session"}   -> "join session"
      [] phrase \in {"Start meeting", "Start Meeting"} -> "start meeting"
      [] phrase \in {"Join Meeting", "Join meeting"}   -> "join meeting"
      [] OTHER -> phrase

\* CAREGIVER_SESSION_FIX.md:424-431: the elements the join-session handler
\* gives a click listener
HandlerTreats(d, b) ==
    /\ IsElem(d, b)
    /\ MatchesButton(d, b)
    /\ \E i \in 1..Len(TextContent(d, b)) :
          ToLowerCase(TextContent(d, b)[i]) \in
              {"join session", "start meeting", "join meeting"}

\* the click on t reaches a listener of the handler, at the target or on the
\* way up; the handler's init has run once the document is past loading
\* (CAREGIVER_SESSION_FIX.md:461-465)
HandlerOnPath(d, rs, t) ==
    /\ rs # "loading"
    /\ \E b \in {t} \cup AncestorsOf(d, t) : HandlerTreats(d, b)

\* the caregiver page's other places for a meeting URL: attr is what
\* getAttribute('data-zoom-url') gives on the first element that has the
\* attribute, input the value of the first input named zoom_meeting_url or
\* meetingUrl, data window.softrPageData.zoomMeetingUrl; Null where the
\* element (or the global) is missing
NoSources == [attr |-> Null, input |-> Null, data |-> Null]

SourceValues(x) == {Null, Str(<<>>), Str(<<x>>)}

AllSources ==
    [attr : SourceValues("https://zoom.us/j/2"),
     input : SourceValues("https://zoom.us/j/3"),
     data : SourceValues("https://zoom.us/j/4")]

\* document.querySelector('a[href*="zoom.us"]')
ZoomLink(d) ==
    FirstOf(Descendants(d, Doc),
            {m \in DOMAIN d : d[m].tag = "a" /\ HrefHasZoom(d[m].href)})

\* faulty variant: the link is looked at before the page's Softr data
getZoomMeetingUrlLinkFirst(d, src) ==
    IF src.attr.present THEN src.attr
    ELSE IF src.input.present THEN src.input
    ELSE IF ZoomLink(d) # NoNode THEN Str(<<d[ZoomLink(d)].href>>)
    ELSE IF Truthy(src.data) THEN src.data
    ELSE Null

\* CAREGIVER_SESSION_FIX.md:389-415
getZoomMeetingUrl(d, src) ==
    IF src.attr.present THEN src.attr
    ELSE IF src.input.present THEN src.input
    ELSE IF Truthy(src.data) THEN src.data
    ELSE IF ZoomLink(d) # NoNode THEN Str(<<d[ZoomLink(d)].href>>)
    ELSE Null

\* CAREGIVER_SESSION_FIX.md:379-382
getCaregiverIdFromUrl(loc) ==
    TheOne({IF Truthy(Get(ps, "caregiver_id")) THEN Get(ps, "caregiver_id")
            ELSE IF Truthy(Get(ps, "caregiverId")) THEN Get(ps, "caregiverId")
            ELSE Get(ps, "id") :
            ps \in {URLSearchParams(loc.search)}})

\* CAREGIVER_SESSION_FIX.md:436-453: the handler's click listener
JoinCallback(d, src, loc) ==
    IF ~Truthy(getZoomMeetingUrl(d, src))
    THEN [location |-> loc, alerted |-> TRUE, redirected |-> FALSE]
    ELSE handleJoinSession(getZoomMeetingUrl(d, src), getCaregiverIdFromUrl(loc), loc)

\* part_000:214-237: a click on node t is dispatched; the guard's
\* capture-phase listener on the document runs first, then the listeners on
\* the way from the target up, the join-session handler's among them
Click(t) ==
    /\ phase = "active"
    /\ location.path = "/caregiver"
    /\ budget > 0
    /\ budget' = budget - 1
    /\ \E h \in {HandlerOnPath(dom, readyState, t)} :
       \E j \in {IF h THEN JoinCallback(dom, sources, location)
                      ELSE [location |-> location, alerted |-> FALSE,
                            redirected |-> FALSE]} :
         /\ location' = j.location
         /\ nav' = IF j.redirected
                   THEN [called |-> TRUE, u |-> getZoomMeetingUrl(dom, sources),
                         s |-> getCaregiverIdFromUrl(location),
                         alerted |-> FALSE, redirected |-> TRUE]
                   ELSE nav
         /\ IF ClickThrows(dom, t)
            THEN /\ UNCHANGED <<dom, stubEnsured, pending, timers>>
                 /\ last' = [Obs0 EXCEPT !.op = "click", !.tgt = t, !.threw = TRUE,
                                         !.handler = h, !.alerted = j.alerted,
                                         !.preFull = FullChain(dom),
                                         !.preHeader = HeaderExists(dom)]
            ELSE IF isJoinButton(dom, t)
            THEN \E e \in {ensureStub(dom, stubEnsured)} :
                     /\ Len(timers) < MaxClicks
                     /\ dom' = e.dom
                     /\ stubEnsured' = e.stubEnsured
                     /\ pending' = Inserted(dom, e.dom, observed, pending)
                     /\ timers' = Append(timers, ClickDelays)
                     /\ last' = [Obs0 EXCEPT !.op = "click", !.calls = 1, !.ret = e.ret,
                                             !.tgt = t, !.preFull = FullChain(dom),
                                             !.handler = h, !.alerted = j.alerted,
                                             !.preHeader = HeaderExists(dom)]
            ELSE /\ UNCHANGED <<dom, stubEnsured, pending, timers>>
                 /\ last' = [Obs0 EXCEPT !.op = "click", !.tgt = t,
                                         !.handler = h, !.alerted = j.alerted,
                                         !.preFull = FullChain(dom),
                                         !.preHeader = HeaderExists(dom)]
    /\ UNCHANGED <<readyState, phase, observer, observed, dclListener, win, meeting,
                   sources>>

\* CAREGIVER_SESSION_FIX.md:471: window.JoinSessionHandler.getZoomMeetingUrl()
\* called by a page script
GetZoomMeetingUrl ==
    /\ budget > 0
    /\ location.path = "/caregiver"
    /\ budget' = budget - 1
    /\ last' = [Obs0 EXCEPT !.op = "getZoomMeetingUrl",
                            !.url = getZoomMeetingUrl(dom, sources)]
    /\ UNCHANGED <<dom, readyState, phase, stubEnsured, observer, observed, dclListener,
                   pending, timers, win>>
    /\ UNCHANGED pageVars

\* part_000:230-235: the earliest pending delayed check of click i runs
TimerFire(i) ==
    /\ pending = <<>>
    /\ i \in 1..Len(timers)
    /\ \E e \in {ensureStub(dom, stubEnsured)} :
           /\ dom' = e.dom
           /\ stubEnsured' = e.stubEnsured
           /\ pending' = Inserted(dom, e.dom, observed, pending)
           /\ last' = [Obs0 EXCEPT !.op = "timeout", !.calls = 1, !.ret = e.ret,
                                   !.delay = Head(timers[i]),
                                   !.preHeader = HeaderExists(dom)]
    /\ timers' = IF Len(timers[i]) = 1
                 THEN SubSeq(timers, 1, i - 1) \o SubSeq(timers, i + 1, Len(timers))
                 ELSE [timers EXCEPT ![i] = Tail(@)]
    /\ UNCHANGED <<readyState, phase, observer, observed, dclListener, win, budget>>
    /\ UNCHANGED pageVars

\* part_000:288-290: window.LegacyNotifGuard.ensureStub() called by the page
DirectEnsure ==
    /\ phase = "active"
    /\ budget > 0
    /\ budget' = budget - 1
    /\ \E e \in {ensureStub(dom, stubEnsured)} :
           /\ dom' = e.dom
           /\ stubEnsured' = e.stubEnsured
           /\ pending' = Inserted(dom, e.dom, observed, pending)
           /\ last' = [Obs0 EXCEPT !.op = "ensureStub", !.calls = 1, !.ret = e.ret,
                                   !.threw = e.threw,
                                   !.preBody = Body(dom) # NoNode,
                                   !.preFull = FullChain(dom)]
    /\ UNCHANGED <<readyState, phase, observer, observed, dclListener, timers, win>>
    /\ UNCHANGED pageVars

\* the selectors the page's scripts query the document with
Selectors == {SEL, "#home-header2", "button"}

\* selector.includes('home-header2')
IncludesHeaderId(sel) == sel \in {SEL, "#home-header2"}

\* part_000:191: the unpatched Document.prototype.querySelector
originalQuerySelector(d, sel) ==
    CASE sel = SEL             -> QuerySEL(d)
      [] sel = "#home-header2" -> QuerySelectorId(d, Doc, HEADER_ID)
      [] OTHER                 -> QuerySelectorTag(d, Doc, sel)

\* part_000:194-205: document.querySelector(sel) called by a page script once
\* init() has replaced it
QuerySelector(sel) ==
    /\ phase = "active"
    /\ budget > 0
    /\ budget' = budget - 1
    /\ \E r0 \in {originalQuerySelector(dom, sel)} :
         IF r0 = NoNode /\ IncludesHeaderId(sel)
         THEN \E e \in {ensureStub(dom, stubEnsured)} :
                  /\ dom' = e.dom
                  /\ stubEnsured' = e.stubEnsured
                  /\ pending' = Inserted(dom, e.dom, observed, pending)
                  /\ last' = [Obs0 EXCEPT !.op = "querySelector", !.sel = sel,
                                          !.calls = 1, !.ret = e.ret, !.warned = TRUE,
                                          !.res0 = r0,
                                          !.res = originalQuerySelector(e.dom, sel),
                                          !.preHeader = HeaderExists(dom),
                                          !.preFull = FullChain(dom)]
         ELSE /\ UNCHANGED <<dom, stubEnsured, pending>>
              /\ last' = [Obs0 EXCEPT !.op = "querySelector", !.sel = sel,
                                      !.res0 = r0, !.res = r0,
                                      !.preHeader = HeaderExists(dom),
                                      !.preFull = FullChain(dom)]
    /\ UNCHANGED <<readyState, phase, observer, observed, dclListener, timers, win>>
    /\ UNCHANGED pageVars

\* part_000:291-295: window.LegacyNotifGuard.getStatus() called by a page
\* script; the object exists once init() has returned
GetStatus ==
    /\ phase = "active"
    /\ budget > 0
    /\ budget' = budget - 1
    /\ last' = [Obs0 EXCEPT !.op = "getStatus",
                            !.status = [stubEnsured |-> stubEnsured,
                                        headerExists |-> GetElementById(dom, HEADER_ID) # NoNode,
                                        observerActive |-> observer # "null"]]
    /\ UNCHANGED <<dom, readyState, phase, stubEnsured, observer, observed, dclListener,
                   pending, timers, win>>
    /\ UNCHANGED pageVars

----------------------------------------------------------------------------
(* The host page *)

\* the node and everything under it
Subtree(d, n) == {n} \cup Range(Descendants(d, n))

\* the stub root and everything under it
StubNodes(d) == UNION {Subtree(d, h) : h \in Headers(d)}

\* some script of the page removes node n from the document
RemoveNode(n) ==
    /\ budget > 0
    /\ n \in InDocument(dom) \ {Doc}
    /\ budget' = budget - 1
    /\ dom' = RemoveChild(dom, n)
    /\ IF observer = "created" /\ Watched(dom, observed, ParentOf(dom, n))
       THEN /\ Len(pending) < MaxRecs
            /\ pending' = Append(pending, RemovalRecord(dom, n))
       ELSE UNCHANGED pending
    /\ observed' = IF observed \in Subtree(dom, n) THEN Gone ELSE observed
    /\ last' = [Obs0 EXCEPT !.op = "remove", !.removed = ChainRole(dom, n)]
    /\ UNCHANGED <<readyState, phase, stubEnsured, observer, dclListener, timers, win>>
    /\ UNCHANGED pageVars

\* the parser (or a script) gives the document a body
BodyAppears ==
    /\ budget > 0
    /\ DocumentElement(dom) # NoNode
    /\ Body(dom) = NoNode
    /\ budget' = budget - 1
    /\ LET b == FreshNode(dom)
       IN  dom' = AppendChild(CreateElement(dom, b, "body"), DocumentElement(dom), b)
    /\ last' = [Obs0 EXCEPT !.op = "body"]
    /\ UNCHANGED <<readyState, phase, stubEnsured, observer, observed, dclListener,
                   pending, timers, win>>
    /\ UNCHANGED pageVars

\* the page's scripts stop touching the document
EnvStop ==
    /\ budget > 0
    /\ budget' = 0
    /\ last' = [Obs0 EXCEPT !.op = "stop"]
    /\ UNCHANGED <<dom, readyState, phase, stubEnsured, observer, observed, dclListener,
                   pending, timers, win>>
    /\ UNCHANGED pageVars

\* window[f] = function ... (or a function declaration) in a page script
AssignFn(f, throws) ==
    /\ budget > 0
    /\ budget' = budget - 1
    /\ win' = [win EXCEPT ![f] = [defined |-> TRUE, throws |-> throws, wrapped |-> FALSE]]
    /\ last' = [Obs0 EXCEPT !.op = "assign", !.fn = f]
    /\ UNCHANGED <<dom, readyState, phase, stubEnsured, observer, observed, dclListener,
                   pending, timers>>
    /\ UNCHANGED pageVars

\* Object.defineProperty(window, f, {value: function ...}) in a page script;
\* part_000:139-146 has replaced Object.defineProperty once init() has run
DefineProperty(f, throws) ==
    /\ budget > 0
    /\ budget' = budget - 1
    /\ win' = [win EXCEPT ![f] = [defined |-> TRUE, throws |-> throws,
                                  wrapped |-> phase = "active"]]
    /\ last' = [Obs0 EXCEPT !.op = "define", !.fn = f]
    /\ UNCHANGED <<dom, readyState, phase, stubEnsured, observer, observed, dclListener,
                   pending, timers>>
    /\ UNCHANGED pageVars

\* a page script calls the global f with receiver self and arguments args
CallFn(f, self, args) ==
    /\ budget > 0
    /\ win[f].defined
    /\ budget' = budget - 1
    /\ \E r \in {IF win[f].wrapped
                 THEN safeWrap(win[f], dom, stubEnsured, self, args)
                 ELSE plainCall(win[f], dom, stubEnsured, self, args)} :
           /\ dom' = r.dom
           /\ stubEnsured' = r.stubEnsured
           /\ pending' = Inserted(dom, r.dom, observed, pending)
           /\ last' = [Obs0 EXCEPT !.op = "call", !.fn = f, !.ret = r.ret,
                                   !.self = self, !.args = args,
                                   !.val = r.val, !.applied = r.applied,
                                   !.seen = SelResolves(r.atApply),
                                   !.threw = r.threw, !.warned = r.warned,
                                   !.calls = r.calls, !.preFull = FullChain(dom)]
    /\ UNCHANGED <<readyState, phase, observer, observed, dclListener, timers, win>>
    /\ UNCHANGED pageVars

----------------------------------------------------------------------------
(* Specifications *)

InitGuard ==
    /\ phase = "fresh"
    /\ stubEnsured = FALSE
    /\ observer = "null"
    /\ observed = NoNode
    /\ dclListener = FALSE
    /\ pending = <<>>
    /\ timers = <<>>
    /\ budget = MaxEnvOps
    /\ last = Obs0
    /\ location = CaregiverPage
    /\ meeting = MeetingClosed
    /\ nav = NoNav

Undefined == [defined |-> FALSE, throws |-> FALSE, wrapped |-> FALSE]

NoFunctions == [f \in legacyFunctions |-> Undefined]

\* any page, any host script touching the document
Init ==
    /\ dom \in AllPages
    /\ readyState \in ReadyStates(dom)
    /\ win = NoFunctions
    /\ sources = NoSources
    /\ InitGuard

Guard ==
    \/ GuardInit
    \/ DOMContentLoaded
    \/ Load
    \/ Tick
    \/ ObserverCallback
    \/ \E i \in 1..MaxClicks : TimerFire(i)
    \/ DirectEnsure

Next ==
    \/ Guard
    \/ \E t \in InDocument(dom) : Click(t)
    \/ \E n \in InDocument(dom) : RemoveNode(n)
    \/ \E sel \in Selectors : QuerySelector(sel)
    \/ GetStatus
    \/ BodyAppears
    \/ EnvStop

Spec == Init /\ [][Next]_vars

\* a page without a #home-header2 of its own; the host page only removes
\* nodes of the stub, and the parser reaches the body
InitStub ==
    /\ dom \in StubPages
    /\ readyState \in ReadyStates(dom)
    /\ win = NoFunctions
    /\ sources = NoSources
    /\ InitGuard

NextStub ==
    \/ Guard
    \/ \E t \in InDocument(dom) : Click(t)
    \/ \E n \in StubNodes(dom) : RemoveNode(n)
    \/ BodyAppears
    \/ EnvStop

SpecStub == InitStub /\ [][NextStub]_vars

\* timers and the observer's callback are run by the browser's event loop
FairStub == SpecStub /\ WF_vars(Tick) /\ WF_vars(ObserverCallback)

\* the mutation guard on a page whose scripts remove nodes of any kind
InitObserver ==
    /\ dom \in {PageNested, PageBody}
    /\ readyState \in {"loading", "complete"}
    /\ win = NoFunctions
    /\ sources = NoSources
    /\ InitGuard

NextObserver ==
    \/ GuardInit
    \/ DOMContentLoaded
    \/ Load
    \/ Tick
    \/ ObserverCallback
    \/ \E n \in InDocument(dom) : RemoveNode(n)

SpecObserver == InitObserver /\ [][NextObserver]_vars

\* the join-session handler on caregiver pages that hold the meeting URL in
\* any of the four places
InitSources ==
    /\ dom \in {PageBody, PageZoom}
    /\ readyState = "complete"
    /\ win = NoFunctions
    /\ sources \in AllSources
    /\ InitGuard

NextSources ==
    \/ GuardInit
    \/ \E t \in InDocument(dom) : Click(t)
    \/ GetZoomMeetingUrl

SpecSources == InitSources /\ [][NextSources]_vars

\* the guarded globals: defined, redefined and called by the page
InitWrap ==
    /\ dom \in StubPages \cup {PageOwnHeader}
    /\ readyState \in ReadyStates(dom)
    /\ win = NoFunctions
    /\ sources = NoSources
    /\ InitGuard

NextWrap ==
    \/ GuardInit
    \/ \E f \in legacyFunctions, th \in BOOLEAN : AssignFn(f, th)
    \/ \E f \in legacyFunctions, th \in BOOLEAN : DefineProperty(f, th)
    \/ \E f \in legacyFunctions, self \in Receivers, args \in ArgLists :
          CallFn(f, self, args)

SpecWrap == InitWrap /\ [][NextWrap]_vars

\* the join-session handler and the meeting page it redirects to
InitJoin ==
    /\ dom = PageBody
    /\ readyState = "complete"
    /\ win = NoFunctions
    /\ sources = NoSources
    /\ InitGuard

\* the search strings the meeting page is opened with by hand
DirectSearches ==
    {<<>>, <<"?", "sessionId", "=", "a">>, <<"?", "meetingUrl", "=">>,
     <<"?", "meetingUrl", "=", "a">>}

NextJoin ==
    \/ \E u \in {Null} \cup {Str(q) : q \in SeqsUpTo(Chars, MaxUrlLen)},
          s \in {Null} \cup {Str(q) : q \in SeqsUpTo(SidChars, MaxSidLen)} :
          JoinSession(u, s)
    \/ \E search \in DirectSearches : OpenMeeting(search)
    \/ \E rs \in {"loading", "interactive", "complete"}, hc \in BOOLEAN :
          MeetingScript(rs, hc)
    \/ MeetingDOMContentLoaded
    \/ Reinitialize

SpecJoin == InitJoin /\ [][NextJoin]_vars

----------------------------------------------------------------------------
(* The claims *)

Containers(d) ==
    {c \in DOMAIN d : IsElem(d, c) /\ d[c].cls = "container"
                       /\ \E h \in Headers(d) : h \in AncestorsOf(d, c)}

Leaves(d) == {m \in DOMAIN d : MatchesSEL(d, m)}

\* exactly one node at each level, found by the selector, with a last child
OneChain(d) ==
    /\ Cardinality(Headers(d)) = 1
    /\ Cardinality(Containers(d)) = 1
    /\ Cardinality(Leaves(d)) = 1
    /\ SelResolves(d)
    /\ FullChain(d)

\* C1: on a page without a #home-header2 of its own, whatever stub nodes the
\* page has removed and whether or not the body has appeared in between, after
\* every step in which ensureStub ran the document holds exactly one
\* #home-header2 with one .container, one leaf div found by SEL and a last
\* child; and no level ever exists twice.
C1_Idempotence ==
    /\ Cardinality(Headers(dom)) <= 1
    /\ Cardinality(Containers(dom)) <= 1
    /\ Cardinality(Leaves(dom)) <= 1
    /\ last.calls > 0 => OneChain(dom)

\* a later ensureStub call that found the chain broken by the page and mended it
C1_Witness ==
    last.op = "ensureStub" /\ ~last.preFull /\ OneChain(dom)

\* C2: whenever ensureStub has returned true, document.querySelector(SEL) is
\* non-null and so is its lastChild, whatever the document was before.
C2_Postcondition ==
    (last.calls > 0 /\ last.ret = "true") => SelResolves(dom)

\* C3: when one node of the whole chain has been removed and then the observer
\* callback or a periodic check has run, the whole chain is there again.
C3_SelfHealing ==
    (last.op \in {"tick", "observer"} /\ last.after # "none") => FullChain(dom)

\* C4: once init() has run, if the stub root is missing and the page has
\* stopped touching the document, the whole chain is eventually there again.
C4_NoPermanentFailure ==
    (phase = "active" /\ budget = 0 /\ ~HeaderExists(dom)) ~> FullChain(dom)

\* the periodic check found the root missing after the page had stopped, and
\* rebuilt the chain
C4_Witness ==
    /\ last.op = "tick" /\ last.calls = 1 /\ ~last.preHeader
    /\ budget = 0 /\ FullChain(dom)

\* C5: a step that runs ensureStub while the four-node chain is whole creates
\* no node: the document has the same nodes after it as before.
C5_NonDuplication ==
    [][(FullChain(dom) /\ last'.calls > 0) => DOMAIN dom' = DOMAIN dom]_vars

\* ensureStub was called by the page while the chain was whole
C5_Witness ==
    last.op = "ensureStub" /\ last.preFull /\ FullChain(dom)

\* every node of d0 is in d1 with the same attributes and parent and the same
\* order among the children it had; the new nodes are hidden stub nodes
OnlyAdds(d0, d1) ==
    /\ \A n \in DOMAIN d0 :
          /\ n \in DOMAIN d1
          /\ [d1[n] EXCEPT !.kids = d0[n].kids] = d0[n]
          /\ SelectSeq(d1[n].kids, LAMBDA k : k \in DOMAIN d0) = d0[n].kids
    /\ \A n \in DOMAIN d1 \ DOMAIN d0 : d1[n].style = "hidden"

\* C6: a step that runs ensureStub leaves every node that was in the document
\* where it was, with its attributes, and only inserts new stub nodes.
C6_OnlyAdds ==
    [][last'.calls > 0 => OnlyAdds(dom, dom')]_vars

\* the stub root was put in front of content the body already had
C6_Witness ==
    /\ last.calls > 0
    /\ Body(dom) # NoNode
    /\ Len(dom[Body(dom)].kids) > 1
    /\ dom[FirstChild(dom, Body(dom))].mark = "v4"

\* C7 as claimed: ensureStub never throws, and called without a body it
\* returns false.
C7_FalseWithoutBody ==
    last.op = "ensureStub" =>
        /\ ~last.threw
        /\ ~last.preBody => last.ret = "false"

\* C7 as amended: ensureStub never throws, and called without a body it
\* returns true; when the document has a root element the stub root is then
\* in the document (attached to the root element).
C7_TrueWithoutBody ==
    last.op = "ensureStub" =>
        /\ ~last.threw
        /\ ~last.preBody =>
              /\ last.ret = "true"
              /\ DocumentElement(dom) # NoNode => HeaderExists(dom)

\* ensureStub was called on a document without a body
C7_Witness ==
    last.op = "ensureStub" /\ ~last.preBody /\ last.ret = "true"

\* C8: a call of a wrapped global whose original throws does not throw,
\* returns null, and the caught error is logged as a warning.
C8_WrapSafety ==
    (last.op = "call" /\ win[last.fn].wrapped /\ win[last.fn].throws) =>
        (~last.threw /\ last.ret = "null" /\ last.warned)

\* a wrapped global that throws was called
C8_Witness ==
    last.op = "call" /\ win[last.fn].wrapped /\ win[last.fn].throws /\ last.ret = "null"

\* C9: once the guard has run, every call of a guarded global, however the
\* page defined it, goes through the wrapper: ensureStub runs first and no
\* exception reaches the caller.
C9_Interposition ==
    (last.op = "call" /\ phase = "active") => (last.calls = 1 /\ ~last.threw)

\* C10 as claimed: after a click on any element whose text is exactly
\* "Join session", whatever its tag, the stub chain is in the document when
\* the guard's listener returns.
C10_ClickGuarantee ==
    (last.op = "click" /\ TextContent(dom, last.tgt) = <<"Join session">>)
        => FullChain(dom)

\* the chain as ensureStub looks it up: #home-header2 in the document, a
\* .container below it, a div below that, and a last child of that div
EnsuredChain(d) ==
    \E h \in {GetElementById(d, HEADER_ID)} :
      /\ h # NoNode
      /\ \E c \in {QuerySelectorClass(d, h, "container")} :
           /\ c # NoNode
           /\ \E l \in {QuerySelectorTag(d, c, "div")} :
                l # NoNode /\ LastChild(d, l) # NoNode

\* C10 as amended: after a click on a button, a link or an element with
\* role=button whose text is exactly "Join session", the listener has run
\* ensureStub once and, when it returns, #home-header2 is in the document
\* with a .container, a div and a last child below it; where no
\* #home-header2 existed before the click it is the whole four-node chain.
C10_ButtonClickGuarantee ==
    (/\ last.op = "click"
     /\ MatchesButton(dom, last.tgt)
     /\ TextContent(dom, last.tgt) = <<"Join session">>)
        => /\ last.calls = 1
           /\ EnsuredChain(dom)
           /\ ~last.preHeader => FullChain(dom)

\* a "Join session" button was clicked while no #home-header2 existed
C10_Witness ==
    /\ last.op = "click"
    /\ MatchesButton(dom, last.tgt)
    /\ TextContent(dom, last.tgt) = <<"Join session">>
    /\ ~last.preHeader
    /\ FullChain(dom)

\* C18 as claimed: for every non-empty meeting URL u and optional session
\* identifier s, handleJoinSession(u, s) leads to /meeting, and the meeting
\* page script reads back meetingUrl = u and sessionId = s (absent when s
\* was not supplied).
C18_RoundTrip ==
    (nav.called /\ nav.u.present /\ nav.u.value # <<>>)
        => /\ location.path = "/meeting"
           /\ meeting.stage # "closed"
                => meeting.meetingUrl = nav.u /\ meeting.sessionId = nav.s

\* C18 as amended: for every meeting URL u that is not empty and not made of
\* white space only, handleJoinSession(u, s) leads to /meeting, and the
\* meeting page script reads back meetingUrl = u exactly, and sessionId = s
\* when s is a non-empty string, no sessionId when s is missing or empty; for
\* an empty or blank u there is no redirect but an alert.
C18_RoundTripNonBlank ==
    /\ (nav.called /\ Truthy(nav.u) /\ Trim(nav.u.value) # <<>>)
        => /\ location.path = "/meeting"
           /\ nav.redirected /\ ~nav.alerted
           /\ meeting.stage # "closed"
                => /\ meeting.meetingUrl = nav.u
                   /\ meeting.sessionId = IF Truthy(nav.s) THEN nav.s ELSE Null
    /\ (nav.called /\ ~(Truthy(nav.u) /\ Trim(nav.u.value) # <<>>))
        => location = CaregiverPage /\ nav.alerted /\ ~nav.redirected

\* a URL with a reserved character and a session identifier went through the
\* redirect and were read by the meeting page script
C18_Witness ==
    /\ nav.redirected
    /\ meeting.stage = "ready"
    /\ \E i \in 1..Len(nav.u.value) : nav.u.value[i] \in {"&", "%", "+", " ", "="}
    /\ Truthy(nav.s)
    /\ meeting.meetingUrl = nav.u
    /\ meeting.sessionId = nav.s

\* C19: when the meeting page is opened without a meetingUrl parameter,
\* after initializeZoomIframe has returned an error message is shown in the
\* page, the error was logged, there is no iframe and no retry is scheduled.
C19_MissingUrlSurfaced ==
    (location.path = "/meeting" /\ meeting.inits > 0 /\ ~meeting.meetingUrl.present)
        => /\ meeting.content = "error"
           /\ meeting.errors > 0
           /\ meeting.src = Null
           /\ meeting.retries = 0

\* C11: when the click target does not match the guard's predicate but one
\* of its ancestors does (a span inside a "Join session" button), the click
\* listener still calls ensureStub.
C11_AncestorClick ==
    (/\ last.op = "click"
     /\ IsElem(dom, last.tgt)
     /\ ~isJoinButton(dom, last.tgt)
     /\ \E a \in AncestorsOf(dom, last.tgt) : IsElem(dom, a) /\ isJoinButton(dom, a))
        => last.calls = 1

\* C12: for every click on a button that the join-session handler treats as
\* a join button, the guard's capture-phase listener has called ensureStub
\* in the same dispatch, before the handler's listener ran.
C12_GuardBeforeHandler ==
    (last.op = "click" /\ last.handler /\ HandlerTreats(dom, last.tgt))
        => last.calls = 1

\* C16: whatever node a click is dispatched on, the guard's click listener
\* returns without throwing.
C16_ClickNeverThrows == last.op = "click" => ~last.threw

\* the guard has run and waits for DOMContentLoaded
Bootstrapping == phase = "active" /\ readyState = "loading"

\* C13 as claimed: while the guard is Bootstrapping neither the mutation
\* guard nor the periodic guard is running.
C13_BothStartAtReady == Bootstrapping => (observer = "null" /\ last.op # "tick")

\* C13 as amended: the mutation guard exists exactly when the guard has run
\* and the document is past loading (it starts at DOMContentLoaded, or in
\* init() when the document is already past it); the periodic check belongs
\* to init() itself and runs in every state after it, Bootstrapping included.
C13_ObserverStartsAtReady ==
    /\ phase = "fresh" => observer = "null"
    /\ phase = "active" => (observer = "created" <=> readyState # "loading")
    /\ last.op = "tick" => phase = "active"

\* the periodic check ran, and repaired the stub, while Bootstrapping
C13_Witness ==
    /\ Bootstrapping
    /\ observer = "null"
    /\ last.op = "tick"
    /\ last.calls = 1

\* C14: once the read guard is installed, document.querySelector(SEL) on a
\* document in which the lookup finds nothing returns a non-null element,
\* the leaf of the stub chain, never null.
C14_ReadMissRepair ==
    (last.op = "querySelector" /\ last.sel = SEL /\ last.res0 = NoNode)
        => (last.res # NoNode /\ last.res = QuerySEL(dom))

\* C20: getStatus() reports observerActive only if the mutation guard is
\* subscribed to the document's body, and headerExists exactly when
\* #home-header2 is in the document.
C20_StatusTruthful ==
    last.op = "getStatus"
        => /\ last.status.observerActive
                => (Body(dom) # NoNode /\ observed = Body(dom))
           /\ last.status.headerExists <=> HeaderExists(dom)

\* C15: init() does not throw, also without a body; and a call of ensureStub
\* from DOMContentLoaded, load, the periodic check or the page, made when a
\* body exists, returns true and leaves the four-node chain in the document
\* exactly once, also when the guard had started without a body.
C15_ColdStart ==
    /\ last.op = "init" => ~last.threw
    /\ (last.op \in {"dcl", "load", "tick", "ensureStub"} /\ last.calls > 0 /\ last.preBody)
        => /\ last.ret = "true"
           /\ ~last.threw
           /\ FullChain(dom)
           /\ Cardinality(Headers(dom)) = 1

\* the guard started without a body (the stub root hangs under the root
\* element), a body exists now, and ensureStub was called again
C15_Witness ==
    /\ last.op \in {"dcl", "load", "tick", "ensureStub"}
    /\ last.calls > 0
    /\ last.preBody
    /\ \E h \in Headers(dom) : ParentOf(dom, h) = DocumentElement(dom)
    /\ FullChain(dom)

\* C17: when the original of a wrapped global returns normally, the wrapped
\* call has invoked it exactly once with the caller's receiver and
\* arguments and returns exactly what the original returned.
C17_ReturnContract ==
    (last.op = "call" /\ win[last.fn].wrapped /\ ~win[last.fn].throws)
        => /\ last.applied = 1
           /\ last.ret = "value"
           /\ last.val = OriginalReturn(last.self, last.args)
           /\ ~last.threw

\* a wrapped global was called on an object with an argument and returned
C17_Witness ==
    /\ last.op = "call"
    /\ win[last.fn].wrapped
    /\ ~win[last.fn].throws
    /\ last.self = "badge"
    /\ last.args = <<"count">>
    /\ last.val = <<"badge", <<"count">>>>

\* what is left of timers once the earliest delayed check of entry i has run
AfterFire(ts, i) ==
    IF Len(ts[i]) = 1
    THEN SubSeq(ts, 1, i - 1) \o SubSeq(ts, i + 1, Len(ts))
    ELSE [ts EXCEPT ![i] = Tail(@)]

\* C21: a click that matches the predicate runs ensureStub once in the
\* listener and schedules two delayed checks, 100 ms and 500 ms; the delayed
\* checks of a click run one ensureStub each, the 100 ms one before the
\* 500 ms one; nothing but their own run takes a delayed check away, and a
\* delayed check is ready to run whatever has happened to the stub or the
\* document in between (it waits only for the observer's queued callback).
C21_ClickSchedule ==
    /\ [][/\ (last'.op = "click" /\ last'.calls > 0) =>
                 (last'.calls = 1 /\ timers' = Append(timers, <<100, 500>>))
          /\ (timers' # timers) =>
                 \/ /\ last'.op = "click"
                    /\ last'.calls = 1
                    /\ timers' = Append(timers, <<100, 500>>)
                 \/ /\ last'.op = "timeout"
                    /\ last'.calls = 1
                    /\ \E i \in 1..Len(timers) :
                          /\ last'.delay = Head(timers[i])
                          /\ timers' = AfterFire(timers, i)
          /\ (last'.op = "timeout") => (timers' # timers)]_vars
    /\ [](\A i \in 1..Len(timers) : timers[i] \in {<<100, 500>>, <<500>>})
    /\ [](\A i \in 1..Len(timers) : pending = <<>> => ENABLED TimerFire(i))

\* the stub root was removed after a matching click, and the 500 ms check of
\* that click ran all the same and repaired the stub
C21_Witness ==
    /\ last.op = "timeout"
    /\ last.delay = 500
    /\ ~last.preHeader
    /\ timers = <<>>
    /\ FullChain(dom)

\* C22: a call of a wrapped global runs ensureStub once before the original,
\* and when the document has a body the original finds the stub chain: the
\* selector resolves and its element has a last child.
C22_WrapperOrdering ==
    (last.op = "call" /\ win[last.fn].wrapped /\ Body(dom) # NoNode)
        => (last.calls = 1 /\ last.applied = 1 /\ last.seen)

\* a removed node of a child-list record is the #home-header2 node or
\* contains it
RemovedStubRoot(mutations) ==
    \E i \in 1..Len(mutations) :
        /\ mutations[i].type = "childList"
        /\ \E j \in 1..Len(mutations[i].removedNodes) :
              \/ mutations[i].removedNodes[j].id = HEADER_ID
              \/ mutations[i].removedNodes[j].hasHeader

\* C23: the observer's callback, run on a batch of records, marks the stub
\* not ensured and calls ensureStub once if some removed node of a child-list
\* record is the #home-header2 node or contains it; on every other batch it
\* calls nothing and leaves stubEnsured and the document as they are.
C23_MutationTrigger ==
    [][(last'.op = "observer") =>
          IF RemovedStubRoot(pending)
          THEN /\ last'.calls = 1
               /\ dom' = ensureStub(dom, FALSE).dom
               /\ stubEnsured' = ensureStub(dom, FALSE).stubEnsured
          ELSE /\ last'.calls = 0
               /\ dom' = dom
               /\ stubEnsured' = stubEnsured]_vars

\* the wrapper around the stub root was removed, not the root itself, and
\* the callback rebuilt the stub
C23_Witness ==
    /\ last.op = "observer"
    /\ last.calls = 1
    /\ \E i \in 1..Len(last.batch) :
          \E j \in 1..Len(last.batch[i].removedNodes) :
              /\ last.batch[i].removedNodes[j].id # HEADER_ID
              /\ last.batch[i].removedNodes[j].hasHeader
    /\ stubEnsured
    /\ FullChain(dom)

\* C24: a run of the periodic check calls ensureStub, once, if stubEnsured is
\* false or no #home-header2 is in the document; a run that finds stubEnsured
\* true and the root in the document calls nothing and changes neither the
\* document nor the flag.
C24_PeriodicCondition ==
    [][(last'.op = "tick") =>
          IF ~stubEnsured \/ Headers(dom) = {}
          THEN /\ last'.calls = 1
               /\ dom' = ensureStub(dom, stubEnsured).dom
               /\ stubEnsured' = ensureStub(dom, stubEnsured).stubEnsured
          ELSE /\ last'.calls = 0
               /\ dom' = dom
               /\ stubEnsured' = stubEnsured]_vars

\* the periodic check ran on a document whose stub root is there but whose
\* chain is broken, and did nothing
C24_Witness ==
    /\ last.op = "tick"
    /\ last.calls = 0
    /\ stubEnsured
    /\ Headers(dom) # {}
    /\ ~FullChain(dom)

\* C25: a document.querySelector call whose selector is not the guarded
\* path, or whose lookup finds an element, returns what the unpatched
\* querySelector returns on the same document, calls ensureStub not at all
\* and leaves the document as it is.
C25_ReadTransparent ==
    [][(last'.op = "querySelector" /\ (last'.sel # SEL \/ last'.res0 # NoNode)) =>
          /\ last'.res = originalQuerySelector(dom, last'.sel)
          /\ last'.calls = 0
          /\ dom' = dom]_vars

\* C26: getZoomMeetingUrl returns the value of the first of the four places
\* that is there, in the order data-zoom-url attribute, input, Softr data,
\* link to zoom.us, and null only when none of them is there.
C26_FirstPresent ==
    last.op = "getZoomMeetingUrl" =>
        /\ sources.attr.present => last.url = sources.attr
        /\ (~sources.attr.present /\ sources.input.present) => last.url = sources.input
        /\ (~sources.attr.present /\ ~sources.input.present /\ sources.data.present)
              => last.url = sources.data
        /\ (~sources.attr.present /\ ~sources.input.present /\ ~sources.data.present
              /\ ZoomLink(dom) # NoNode)
              => last.url = Str(<<dom[ZoomLink(dom)].href>>)
        /\ ~last.url.present
              <=> (~sources.attr.present /\ ~sources.input.present
                   /\ ~sources.data.present /\ ZoomLink(dom) = NoNode)

\* C26 as amended: the attribute and the input count when their element is
\* there, whatever the value; the Softr data counts only when it is a
\* non-empty value, and an empty one is passed over for the link.
C26_FirstPresentOrTruthy ==
    last.op = "getZoomMeetingUrl" =>
        /\ sources.attr.present => last.url = sources.attr
        /\ (~sources.attr.present /\ sources.input.present) => last.url = sources.input
        /\ (~sources.attr.present /\ ~sources.input.present /\ Truthy(sources.data))
              => last.url = sources.data
        /\ (~sources.attr.present /\ ~sources.input.present /\ ~Truthy(sources.data)
              /\ ZoomLink(dom) # NoNode)
              => last.url = Str(<<dom[ZoomLink(dom)].href>>)
        /\ ~last.url.present
              <=> (~sources.attr.present /\ ~sources.input.present
                   /\ ~Truthy(sources.data) /\ ZoomLink(dom) = NoNode)

\* the Softr data is there but empty, and the link's address is returned
C26_Witness ==
    /\ last.op = "getZoomMeetingUrl"
    /\ ~sources.attr.present
    /\ ~sources.input.present
    /\ sources.data = Str(<<>>)
    /\ last.url = Str(<<"https://zoom.us/j/1">>)

\* C27: on a meeting page with a meetingUrl parameter and a
\* #zoom-meeting-container, after every run of initializeZoomIframe (by the
\* script or by MeetingPageDebug.reinitialize) the container holds one child,
\* the iframe, whose src is the parameter's value, and no spinner.
C27_SingleIframe ==
    (meeting.inits > 0 /\ meeting.hasContainer /\ meeting.meetingUrl.present)
        => /\ meeting.kids = <<"iframe">>
           /\ meeting.src = meeting.meetingUrl
           /\ meeting.src = Get(URLSearchParams(location.search), "meetingUrl")

\* C27 as amended: the same for a meetingUrl parameter that is not empty;
\* with an empty one the container holds the error text and no iframe.
C27_SingleIframeNonEmpty ==
    /\ (meeting.inits > 0 /\ meeting.hasContainer /\ Truthy(meeting.meetingUrl))
        => /\ meeting.kids = <<"iframe">>
           /\ meeting.src = meeting.meetingUrl
           /\ meeting.src = Get(URLSearchParams(location.search), "meetingUrl")
    /\ (meeting.inits > 0 /\ meeting.hasContainer /\ ~Truthy(meeting.meetingUrl))
        => (meeting.kids = <<"error">> /\ meeting.src = Null)

\* the meeting was embedded, then embedded again by reinitialize
C27_Witness ==
    /\ meeting.inits > 1
    /\ meeting.hasContainer
    /\ Truthy(meeting.meetingUrl)
    /\ meeting.kids = <<"iframe">>
    /\ nav.redirected

\* C28: the records of the insertions ensureStub makes never make the
\* observer's callback call ensureStub: the callback calls it, once, only on
\* a batch with a node removed by the page; no step of the guard queues a
\* record with a removed node, and after the callback's repair the queue
\* holds nothing that asks for another; the observer is created once and
\* subscribed once, whatever DOMContentLoaded and load events follow.
C28_RepairQuiesces ==
    [][/\ (last'.op = "observer" /\ last'.calls > 0) =>
             /\ last'.calls = 1
             /\ \E i \in 1..Len(pending) : pending[i].removedNodes # <<>>
       /\ (last'.op # "remove") =>
             \A i \in 1..Len(pending') :
                 pending'[i].removedNodes # <<>> => pending'[i] \in Range(pending)
       /\ (last'.op = "observer") => ~RemovedStubRoot(pending')
       /\ (observer # "null") => (observer' = observer)
       /\ (observed' # observed) =>
             \/ (observer = "null" /\ observer' = "created")
             \/ (last'.op = "remove" /\ observed' = Gone)]_vars

\* the callback ran on the records of ensureStub's own insertions and called
\* nothing
C28_Witness ==
    /\ last.op = "observer"
    /\ last.calls = 0
    /\ last.batch # <<>>
    /\ \A i \in 1..Len(last.batch) : last.batch[i].removedNodes = <<>>
    /\ stubEnsured
    /\ FullChain(dom)
    /\ budget < MaxEnvOps

\* one of the four places holds a meeting URL that is not empty
SomeUsableUrl ==
    \/ Truthy(sources.attr)
    \/ Truthy(sources.input)
    \/ Truthy(sources.data)
    \/ ZoomLink(dom) # NoNode

\* C29: when one of the four places holds a non-empty meeting URL, a click
\* on a join button ends in the redirect to /meeting with a non-empty
\* meetingUrl parameter and not in the alert, also when a place of higher
\* priority is there but empty.
C29_UsableUrlFound ==
    (last.op = "click" /\ last.handler /\ SomeUsableUrl)
        => /\ ~last.alerted
           /\ nav.redirected
           /\ location.path = "/meeting"
           /\ Truthy(Get(URLSearchParams(location.search), "meetingUrl"))

====
